---- MODULE Spec2Model ----
(***************************************************************************)
(* A model of examples/AudioNodeDev/RackNode.cpp: the AudioNode graph      *)
(* (SinAudioNode, SummingAudioNode, FunctionAudioNode and further          *)
(* subclasses of the abstract AudioNode) and the readiness-driven block    *)
(* loop of AudioNodeProcessor.                                             *)
(*                                                                         *)
(* Samples are fixed-point integers.  A node is identified by its index in *)
(* heap, the sequence of all nodes constructed so far; a node is always    *)
(* constructed after its inputs, so every input index is smaller than the  *)
(* index of the node that holds it.                                        *)
(***************************************************************************)
EXTENDS Integers, Sequences, FiniteSets, TLC

\* ------------------------------------------------------------- bounds
MaxNodes == 4          \* nodes constructed before the processor is built
MaxBlocks == 2         \* calls of AudioNodeProcessor::process
BlockSize == 2         \* samples per block
MaxDestChannels == 2   \* channels of the caller's destination buffer
MaxExtNodes == 1       \* nodes of a subclass other than the three of the file

\* ------------------------------------------------------------- values
Frequencies == {1, 2}                 \* oscillator phase steps per sample
Functions == {"neg", "half"}          \* the lambdas of the tests
Wave == <<0, -2, -4, -2, 0, 2, 4, 2>> \* one period of the waveform, from -pi
UninitialisedFill == {0, 7}           \* what freshly allocated samples hold
\* The caller's buffer is the mono buffer of the tests or the widest buffer.
CallerChannelCounts == {1, MaxDestChannels}

\* The events in the caller's MidiBuffer when it calls process: the test clears
\* it before every call, another caller hands over the events of its block.
CallerMidi(numChannels) == IF numChannels = 1 THEN <<>> ELSE <<"noteOn">>

\* What the caller left in its buffer: the mono buffer of the tests is cleared
\* before every block, a wider one is not.
CallerFill(numChannels) == IF numChannels = 1 THEN 0 ELSE 9
ExtChannelCounts == {2}               \* channel counts of the other subclasses

VARIABLES
    heap,              \* Seq of node objects (their immutable configuration)
    owned,             \* nodes moved into an owner (a unique_ptr was moved from)
    hasBeenProcessed,  \* AudioNode::hasBeenProcessed, per node
    audioBuffer,       \* AudioNode::audioBuffer, per node
    midiBuffer,        \* AudioNode::midiBuffer, per node
    phase,             \* SinAudioNode::osc phase, per node
    node,              \* AudioNodeProcessor::node (the root), 0 before construction
    allNodes,          \* AudioNodeProcessor::allNodes
    pc,                \* "build" | "constructed" | "idle" | "scan"
    i,                 \* position of the inner for loop in allNodes
    processedAnyNodes, \* the local of AudioNodeProcessor::process
    audio,             \* the caller's AudioBuffer argument
    midi,              \* the caller's MidiBuffer argument
    audioBefore,       \* audio as it was when process was called
    blocks,            \* calls of process so far
    scans,             \* scans of allNodes completed in the current call
    order,             \* nodes in the order AudioNode::process() ran in this call
    initialiseCalls,   \* calls of AudioNode::initialise, per node
    prepareToPlayCalls,\* calls of the virtual prepareToPlay, per node
    jassertFailed,     \* a jassert (hasProcessed()) of an accessor has failed
    sizeJassertFailed, \* a jassert on the size at the end of process() has failed
    outcome            \* how the last call of process ended: "none" | "returned"

vars == <<heap, owned, hasBeenProcessed, audioBuffer, midiBuffer, phase, node,
          allNodes, pc, i, processedAnyNodes, audio, midi, audioBefore, blocks,
          scans, order, initialiseCalls, prepareToPlayCalls, jassertFailed,
          sizeJassertFailed, outcome>>

\* ------------------------------------------------------------- helpers
Min(a, b) == IF a < b THEN a ELSE b
Max(a, b) == IF a > b THEN a ELSE b
Range(s) == {s[k] : k \in 1..Len(s)}
Count(s, x) == Cardinality({k \in 1..Len(s) : s[k] = x})
Ids == 1..Len(heap)

\* juce::AudioBuffer<float>: a channel count, a frame count and the samples.
Buffer(numChannels, numSamples, v) ==
    [numChannels |-> numChannels, numSamples |-> numSamples,
     data |-> [c \in 1..numChannels |-> [s \in 1..numSamples |-> v]]]

EmptyBuffer == Buffer(0, 0, 0)

\* AudioBuffer::clear
Clear(b) == Buffer(b.numChannels, b.numSamples, 0)

\* Two buffers have the same getNumChannels() and getNumSamples().
SameSize(a, b) == a.numChannels = b.numChannels /\ a.numSamples = b.numSamples

\* AudioBuffer::setSize with the default arguments: the content is not kept and
\* not cleared, so the samples hold whatever the allocation holds (fill).
SetSize(numChannels, numSamples, fill) == Buffer(numChannels, numSamples, fill)

\* ------------------------------------------------------------- node kinds
SinNode(f) ==
    [kind |-> "Sin", nodes |-> <<>>, function |-> "none", frequency |-> f,
     numberOfChannels |-> 1, ready |-> TRUE]

SummingNode(inputs) ==
    [kind |-> "Summing", nodes |-> inputs, function |-> "none", frequency |-> 0,
     numberOfChannels |-> 0, ready |-> TRUE]

FunctionNode(input, fn) ==
    [kind |-> "Function", nodes |-> <<input>>, function |-> fn, frequency |-> 0,
     numberOfChannels |-> 0, ready |-> TRUE]

\* Any other subclass of AudioNode: the pure virtuals answer what the subclass
\* was configured with (declared: the result of its getAllInputNodes).
ExtNode(declared, ch, rdy) ==
    [kind |-> "Ext", nodes |-> declared, function |-> "none", frequency |-> 0,
     numberOfChannels |-> ch, ready |-> rdy]

\* std::function<float (float)>
Apply(fn, s) ==
    CASE fn = "neg" -> 0 - s
      [] fn = "half" -> s \div 2
      [] OTHER -> s

\* ------------------------------------------------------------- virtuals
RECURSIVE getAudioNodeProperties(_)
RECURSIVE SummingProperties(_, _)
RECURSIVE getAllInputNodes(_)
RECURSIVE SummingInputNodes(_, _)
RECURSIVE prepareToPlayCount(_, _)
RECURSIVE SummingPrepareCount(_, _, _)

\* A variant of SummingProperties that keeps the properties of the last input
\* and does not accumulate.
SummingPropertiesLast(inputs, k) ==
    IF k = 0
    THEN [hasAudio |-> FALSE, hasMidi |-> FALSE, numberOfChannels |-> 0]
    ELSE getAudioNodeProperties(inputs[k])

\* SummingAudioNode::getAudioNodeProperties: props after the first k inputs.
SummingProperties(inputs, k) ==
    IF k = 0
    THEN [hasAudio |-> FALSE, hasMidi |-> FALSE, numberOfChannels |-> 0]
    ELSE LET props == SummingProperties(inputs, k - 1)
             nodeProps == getAudioNodeProperties(inputs[k])
         IN  [hasAudio |-> props.hasAudio \/ nodeProps.hasAudio,
              hasMidi |-> props.hasMidi \/ nodeProps.hasMidi,
              numberOfChannels |->
                  Max(props.numberOfChannels, nodeProps.numberOfChannels)]

\* The virtual getAudioNodeProperties of node n.
getAudioNodeProperties(n) ==
    CASE heap[n].kind = "Sin" ->
            [hasAudio |-> TRUE, hasMidi |-> FALSE, numberOfChannels |-> 1]
      [] heap[n].kind = "Summing" ->
            SummingProperties(heap[n].nodes, Len(heap[n].nodes))
      [] heap[n].kind = "Function" ->
            getAudioNodeProperties(heap[n].nodes[1])
      [] OTHER ->
            [hasAudio |-> TRUE, hasMidi |-> TRUE,
             numberOfChannels |-> heap[n].numberOfChannels]

\* SummingAudioNode::getAllInputNodes: inputNodes after the first k inputs.
SummingInputNodes(inputs, k) ==
    IF k = 0
    THEN <<>>
    ELSE SummingInputNodes(inputs, k - 1)
             \o <<inputs[k]>> \o getAllInputNodes(inputs[k])

\* A variant of getAllInputNodes that lists the direct inputs only.
getAllInputNodesDirect(n) == heap[n].nodes

\* The virtual getAllInputNodes of node n.
getAllInputNodes(n) ==
    CASE heap[n].kind = "Sin" -> <<>>
      [] heap[n].kind = "Summing" ->
            SummingInputNodes(heap[n].nodes, Len(heap[n].nodes))
      [] heap[n].kind = "Function" ->
            <<heap[n].nodes[1]>> \o getAllInputNodes(heap[n].nodes[1])
      [] OTHER -> heap[n].nodes

\* AudioNode::hasProcessed
hasProcessed(n) == hasBeenProcessed[n]

\* A variant of isReadyToProcess that never looks at the inputs.
isReadyToProcessAlways(n) == heap[n].kind # "Ext" \/ heap[n].ready

\* A variant of isReadyToProcess in which a combiner is content with one
\* processed input.
isReadyToProcessAny(n) ==
    CASE heap[n].kind = "Sin" -> TRUE
      [] heap[n].kind = "Summing" ->
            \/ heap[n].nodes = <<>>
            \/ \E k \in 1..Len(heap[n].nodes) : hasProcessed(heap[n].nodes[k])
      [] heap[n].kind = "Function" -> hasProcessed(heap[n].nodes[1])
      [] OTHER -> heap[n].ready

\* The virtual isReadyToProcess of node n.
isReadyToProcess(n) ==
    CASE heap[n].kind = "Sin" -> TRUE
      [] heap[n].kind = "Summing" ->
            \A k \in 1..Len(heap[n].nodes) : hasProcessed(heap[n].nodes[k])
      [] heap[n].kind = "Function" -> hasProcessed(heap[n].nodes[1])
      [] OTHER -> heap[n].ready

\* SummingAudioNode::prepareToPlay: the calls that reach m through the first k
\* inputs.
SummingPrepareCount(inputs, k, m) ==
    IF k = 0
    THEN 0
    ELSE SummingPrepareCount(inputs, k - 1, m) + prepareToPlayCount(inputs[k], m)

\* How many times one call of n's virtual prepareToPlay runs m's prepareToPlay.
prepareToPlayCount(n, m) ==
    (IF n = m THEN 1 ELSE 0)
    + (CASE heap[n].kind = "Summing" ->
                SummingPrepareCount(heap[n].nodes, Len(heap[n].nodes), m)
         [] heap[n].kind = "Function" ->
                prepareToPlayCount(heap[n].nodes[1], m)
         [] OTHER -> 0)

\* ------------------------------------------------------------- processing
\* SinAudioNode::process: BlockSize samples of the oscillator into channel 0.
SinProcess(n, buffer) ==
    [buffer EXCEPT !.data[1] =
        [s \in 1..buffer.numSamples |->
            Wave[((phase[n] + (s - 1) * heap[n].frequency) % Len(Wave)) + 1]]]

\* A variant of AddInput that copies the input over dest (copyFrom for addFrom).
AddInputCopying(dest, inputBuffer) ==
    LET numChannels == Min(dest.numChannels, inputBuffer.numChannels)
    IN  [dest EXCEPT !.data =
            [c \in 1..dest.numChannels |->
                IF c <= numChannels
                THEN [s \in 1..dest.numSamples |-> inputBuffer.data[c][s]]
                ELSE dest.data[c]]]

\* A variant of AddInput that also shrinks dest to the channels it shares with
\* the input.
AddInputTruncating(dest, inputBuffer) ==
    LET numChannels == Min(dest.numChannels, inputBuffer.numChannels)
    IN  [numChannels |-> numChannels,
         numSamples |-> dest.numSamples,
         data |-> [c \in 1..numChannels |->
                      [s \in 1..dest.numSamples |->
                          dest.data[c][s] + inputBuffer.data[c][s]]]]

\* AudioBuffer::addFrom for the channels both buffers have.
AddInput(dest, inputBuffer) ==
    LET numChannels == Min(dest.numChannels, inputBuffer.numChannels)
    IN  [dest EXCEPT !.data =
            [c \in 1..dest.numChannels |->
                IF c <= numChannels
                THEN [s \in 1..dest.numSamples |->
                         dest.data[c][s] + inputBuffer.data[c][s]]
                ELSE dest.data[c]]]

RECURSIVE SummingProcess(_, _, _)
\* SummingAudioNode::process: dest after the first k inputs were added.
SummingProcess(inputs, k, dest) ==
    IF k = 0
    THEN dest
    ELSE AddInput(SummingProcess(inputs, k - 1, dest), audioBuffer[inputs[k]])

\* A variant of FunctionProcess that copies the input and never calls function.
FunctionProcessCopy(n, outputBuffer) ==
    LET inputBuffer == audioBuffer[heap[n].nodes[1]]
        numChannels == Min(inputBuffer.numChannels, outputBuffer.numChannels)
    IN  [outputBuffer EXCEPT !.data =
            [c \in 1..outputBuffer.numChannels |->
                IF c <= numChannels THEN inputBuffer.data[c]
                ELSE outputBuffer.data[c]]]

\* FunctionAudioNode::process
FunctionProcess(n, outputBuffer) ==
    LET inputBuffer == audioBuffer[heap[n].nodes[1]]
        numChannels == Min(inputBuffer.numChannels, outputBuffer.numChannels)
    IN  [outputBuffer EXCEPT !.data =
            [c \in 1..outputBuffer.numChannels |->
                IF c <= numChannels
                THEN [s \in 1..outputBuffer.numSamples |->
                         Apply(heap[n].function, inputBuffer.data[c][s])]
                ELSE outputBuffer.data[c]]]

\* The process of another subclass: a constant signal on every channel.
ExtProcess(n, buffer) ==
    [buffer EXCEPT !.data =
        [c \in 1..buffer.numChannels |-> [s \in 1..buffer.numSamples |-> c]]]

\* A variant of ProduceMidi in which a combiner and a transform pass on the
\* events of their first input.
ProduceMidiFromInput(n, destMidi) ==
    IF heap[n].kind = "Ext"
    THEN Append(destMidi, "noteOn")
    ELSE IF heap[n].nodes # <<>>
         THEN destMidi \o midiBuffer[heap[n].nodes[1]]
         ELSE destMidi

\* The virtual process (destAudio, destMidi) of node n: the events it leaves in
\* destMidi. The three classes of the file do not touch destMidi; a node of
\* another subclass adds an event.
ProduceMidi(n, destMidi) ==
    IF heap[n].kind = "Ext" THEN Append(destMidi, "noteOn") ELSE destMidi

\* The virtual process (destAudio, destMidi) of node n: the audio it leaves.
Produce(n, destAudio) ==
    CASE heap[n].kind = "Sin" -> SinProcess(n, destAudio)
      [] heap[n].kind = "Summing" ->
            SummingProcess(heap[n].nodes, Len(heap[n].nodes), destAudio)
      [] heap[n].kind = "Function" -> FunctionProcess(n, destAudio)
      [] OTHER -> ExtProcess(n, destAudio)

\* The nodes whose getProcessedAudioOutput the virtual process of n calls.
OutputsRead(n) ==
    IF heap[n].kind \in {"Summing", "Function"} THEN Range(heap[n].nodes) ELSE {}

\* A variant of ClearedForProcess that forgets audioBuffer.clear().
NotClearedForProcess(n) == audioBuffer[n]

\* The buffer AudioNode::process() hands to the virtual process.
ClearedForProcess(n) == Clear(audioBuffer[n])

\* A variant of copyAudioBuffer that uses addFrom in place of copyFrom.
copyAudioBufferAdding(dest, source) ==
    LET numChannels == Min(dest.numChannels, source.numChannels)
    IN  [dest EXCEPT !.data =
            [c \in 1..dest.numChannels |->
                IF c <= numChannels
                THEN [s \in 1..dest.numSamples |->
                         dest.data[c][s] + source.data[c][s]]
                ELSE dest.data[c]]]

\* AudioNodeProcessor::copyAudioBuffer
copyAudioBuffer(dest, source) ==
    LET numChannels == Min(dest.numChannels, source.numChannels)
    IN  [dest EXCEPT !.data =
            [c \in 1..dest.numChannels |->
                IF c <= numChannels
                THEN [s \in 1..dest.numSamples |-> source.data[c][s]]
                ELSE dest.data[c]]]

RECURSIVE unique_copy(_)
\* std::unique_copy with ==: drops an element equal to the one before it.
unique_copy(s) ==
    IF Len(s) <= 1
    THEN s
    ELSE LET front == unique_copy(SubSeq(s, 1, Len(s) - 1))
         IN  IF s[Len(s)] = s[Len(s) - 1] THEN front ELSE Append(front, s[Len(s)])

\* ------------------------------------------------------------- construction
Unowned == Ids \ owned

RECURSIVE Ascending(_)
\* The elements of the set S of numbers as an ascending sequence.
Ascending(S) ==
    IF S = {}
    THEN <<>>
    ELSE LET top == CHOOSE x \in S : \A y \in S : y <= x
         IN  Append(Ascending(S \ {top}), top)

\* The vectors of unique_ptr that are moved into a new node: the k most
\* recently built nodes that nobody owns yet, in the order they were built.  (A
\* graph is built input by input, each input with everything below it before
\* the next one, so every ordered tree is built, in one order of construction.)
LastUnowned(k) ==
    LET all == Ascending(Ids \ owned)
    IN  SubSeq(all, Len(all) - k + 1, Len(all))

\* What getAllInputNodes of a node of another subclass may return: nothing, or
\* one node built before it, to which it holds a plain pointer.
Declarable == {<<>>} \cup {<<m>> : m \in Ids}

\* A node object comes into being: AudioNode's member initialisers.
Construct(obj) ==
    /\ pc = "build"
    /\ Len(heap) < MaxNodes
    /\ heap' = Append(heap, obj)
    /\ hasBeenProcessed' = Append(hasBeenProcessed, FALSE)
    /\ audioBuffer' = Append(audioBuffer, EmptyBuffer)
    /\ midiBuffer' = Append(midiBuffer, <<>>)
    /\ phase' = Append(phase, 0)
    /\ initialiseCalls' = Append(initialiseCalls, 0)
    /\ prepareToPlayCalls' = Append(prepareToPlayCalls, 0)
    /\ UNCHANGED <<node, allNodes, pc, i, processedAnyNodes, audio, midi,
                   audioBefore, blocks, scans, order, jassertFailed,
                   sizeJassertFailed, outcome>>

NewSinAudioNode(f) ==
    /\ Construct(SinNode(f))
    /\ UNCHANGED owned

NewSummingAudioNode(inputs) ==
    /\ Construct(SummingNode(inputs))
    /\ owned' = owned \cup Range(inputs)

NewFunctionAudioNode(input, fn) ==
    /\ Construct(FunctionNode(input, fn))
    /\ owned' = owned \cup {input}

\* A node of another subclass; it holds plain pointers and owns nothing.
NewExtAudioNode(declared, ch, rdy) ==
    /\ Cardinality({n \in Ids : heap[n].kind = "Ext"}) < MaxExtNodes
    /\ Construct(ExtNode(declared, ch, rdy))
    /\ UNCHANGED owned

\* A variant of FlatList that puts the root in front of its inputs.
FlatListRootFirst(nodeToProcess) ==
    unique_copy(<<nodeToProcess>> \o getAllInputNodes(nodeToProcess))

\* AudioNodeProcessor::AudioNodeProcessor: the flat list for root nodeToProcess.
FlatList(nodeToProcess) ==
    unique_copy(Append(getAllInputNodes(nodeToProcess), nodeToProcess))

\* The processor is built on a node nobody owns; every node that was built is
\* part of the graph handed over.
NewAudioNodeProcessor(nodeToProcess) ==
    /\ pc = "build"
    /\ nodeToProcess \in Unowned
    /\ Unowned \subseteq Range(FlatList(nodeToProcess))
    /\ node' = nodeToProcess
    /\ owned' = owned \cup {nodeToProcess}
    /\ allNodes' = FlatList(nodeToProcess)
    /\ pc' = "constructed"
    /\ UNCHANGED <<heap, hasBeenProcessed, audioBuffer, midiBuffer, phase, i,
                   processedAnyNodes, audio, midi, audioBefore, blocks, scans,
                   order, initialiseCalls, prepareToPlayCalls, jassertFailed,
                   sizeJassertFailed, outcome>>

\* ------------------------------------------------------------- prepareToPlay
RECURSIVE PrepareCallsFrom(_, _)
\* The prepareToPlay calls that reach m from the first k iterations of the loop
\* of AudioNodeProcessor::prepareToPlay.
PrepareCallsFrom(k, m) ==
    IF k = 0 THEN 0
    ELSE PrepareCallsFrom(k - 1, m) + prepareToPlayCount(allNodes[k], m)

\* AudioNode::initialise of node n, the allocation holding fill.
initialise(n, fill) ==
    SetSize(getAudioNodeProperties(n).numberOfChannels, BlockSize, fill)

\* AudioNodeProcessor::prepareToPlay
prepareToPlay(fill) ==
    /\ pc = "constructed"
    /\ audioBuffer' = [n \in Ids |->
           IF n \in Range(allNodes) THEN initialise(n, fill) ELSE audioBuffer[n]]
    /\ initialiseCalls' = [n \in Ids |-> initialiseCalls[n] + Count(allNodes, n)]
    /\ prepareToPlayCalls' = [n \in Ids |->
           prepareToPlayCalls[n] + PrepareCallsFrom(Len(allNodes), n)]
    /\ phase' = [n \in Ids |->
           IF PrepareCallsFrom(Len(allNodes), n) > 0 THEN 0 ELSE phase[n]]
    /\ pc' = "idle"
    /\ UNCHANGED <<heap, owned, hasBeenProcessed, midiBuffer, node, allNodes, i,
                   processedAnyNodes, audio, midi, audioBefore, blocks, scans,
                   order, jassertFailed,
                   sizeJassertFailed, outcome>>

\* ------------------------------------------------------------- process
\* AudioNode::prepareForNextBlock on every element of allNodes.
ResetFlags ==
    [n \in Ids |-> IF n \in Range(allNodes) THEN FALSE ELSE hasBeenProcessed[n]]

\* The caller enters AudioNodeProcessor::process with a buffer of its own; the
\* first loop resets the flags and the first scan starts.
ProcessBegin(numChannels, fill) ==
    /\ pc = "idle"
    /\ blocks < MaxBlocks
    /\ audio' = Buffer(numChannels, BlockSize, fill)
    /\ audioBefore' = Buffer(numChannels, BlockSize, fill)
    /\ midi' = CallerMidi(numChannels)
    /\ hasBeenProcessed' = ResetFlags
    /\ pc' = "scan"
    /\ i' = 1
    /\ processedAnyNodes' = FALSE
    /\ blocks' = blocks + 1
    /\ scans' = 0
    /\ order' = <<>>
    /\ outcome' = "none"
    /\ UNCHANGED <<heap, owned, audioBuffer, midiBuffer, phase, node, allNodes,
                   initialiseCalls, prepareToPlayCalls, jassertFailed,
                   sizeJassertFailed>>

\* A variant of ShouldProcess without the hasProcessed test.
ShouldProcessAgain(n) == isReadyToProcess(n)

\* The condition of the if in the inner loop, for the node at position i.
ShouldProcess(n) == ~hasProcessed(n) /\ isReadyToProcess(n)

\* A variant of MarkProcessed that leaves n as the only node marked.
MarkProcessedOnly(n) == [m \in Ids |-> m = n]

\* hasBeenProcessed = true at the end of AudioNode::process() on node n.
MarkProcessed(n) == [hasBeenProcessed EXCEPT ![n] = TRUE]

\* The oscillator state after a SinAudioNode has produced one block.
PhaseAfter(n) ==
    IF heap[n].kind = "Sin"
    THEN (phase[n] + BlockSize * heap[n].frequency) % Len(Wave)
    ELSE phase[n]

\* One iteration of the inner loop that runs AudioNode::process() on the node.
ProcessNode ==
    /\ pc = "scan"
    /\ i <= Len(allNodes)
    /\ ShouldProcess(allNodes[i])
    /\ LET n == allNodes[i]
       IN  /\ audioBuffer' =
                 [audioBuffer EXCEPT ![n] = Produce(n, ClearedForProcess(n))]
           /\ midiBuffer' = [midiBuffer EXCEPT ![n] = ProduceMidi(n, <<>>)]
           /\ phase' = [phase EXCEPT ![n] = PhaseAfter(n)]
           /\ hasBeenProcessed' = MarkProcessed(n)
           /\ jassertFailed' =
                 (jassertFailed \/ \E m \in OutputsRead(n) : ~hasProcessed(m))
           /\ sizeJassertFailed' =
                 (sizeJassertFailed
                      \/ ~SameSize(ClearedForProcess(n),
                                   Produce(n, ClearedForProcess(n))))
           /\ order' = Append(order, n)
    /\ processedAnyNodes' = TRUE
    /\ i' = i + 1
    /\ UNCHANGED <<heap, owned, node, allNodes, pc, audio, midi, audioBefore,
                   blocks, scans, initialiseCalls, prepareToPlayCalls, outcome>>

RECURSIVE SkipTo(_)
\* The first position from j on at which the inner loop does not just go on:
\* a node it processes, or the end of the list.
SkipTo(j) ==
    IF j > Len(allNodes) \/ ShouldProcess(allNodes[j]) THEN j ELSE SkipTo(j + 1)

\* The iterations of the inner loop that leave their node alone, up to the next
\* node that is processed or the end of the list; they change nothing but the
\* position.
SkipNode ==
    /\ pc = "scan"
    /\ i <= Len(allNodes)
    /\ ~ShouldProcess(allNodes[i])
    /\ i' = SkipTo(i + 1)
    /\ UNCHANGED <<heap, owned, hasBeenProcessed, audioBuffer, midiBuffer, phase,
                   node, allNodes, pc, processedAnyNodes, audio, midi,
                   audioBefore, blocks, scans, order, initialiseCalls,
                   prepareToPlayCalls, jassertFailed,
                   sizeJassertFailed, outcome>>

\* A variant of LoopExits that leaves the outer loop after the first scan.
LoopExitsAtOnce == TRUE

\* if (! processedAnyNodes): the condition under which the outer loop is left.
LoopExits == ~processedAnyNodes

\* The inner loop is over and has processed a node: the next scan starts.
NextScan ==
    /\ pc = "scan"
    /\ i > Len(allNodes)
    /\ ~LoopExits
    /\ i' = 1
    /\ processedAnyNodes' = FALSE
    /\ scans' = scans + 1
    /\ UNCHANGED <<heap, owned, hasBeenProcessed, audioBuffer, midiBuffer, phase,
                   node, allNodes, pc, audio, midi, audioBefore, blocks, order,
                   initialiseCalls, prepareToPlayCalls, jassertFailed,
                   sizeJassertFailed, outcome>>

\* The inner loop is over and has processed nothing: the root's output is
\* copied to the caller and process returns.
FinishBlock ==
    /\ pc = "scan"
    /\ i > Len(allNodes)
    /\ LoopExits
    /\ audio' = copyAudioBuffer(audio, audioBuffer[node])
    /\ outcome' = "returned"
    /\ jassertFailed' = (jassertFailed \/ ~hasProcessed(node))
    /\ scans' = scans + 1
    /\ pc' = "idle"
    /\ UNCHANGED <<heap, owned, hasBeenProcessed, audioBuffer, midiBuffer, phase,
                   node, allNodes, i, processedAnyNodes, midi, audioBefore,
                   blocks, order, initialiseCalls, prepareToPlayCalls,
                   sizeJassertFailed>>

\* ------------------------------------------------------------- specification
Init ==
    /\ heap = <<>>
    /\ owned = {}
    /\ hasBeenProcessed = <<>>
    /\ audioBuffer = <<>>
    /\ midiBuffer = <<>>
    /\ phase = <<>>
    /\ node = 0
    /\ allNodes = <<>>
    /\ pc = "build"
    /\ i = 0
    /\ processedAnyNodes = FALSE
    /\ audio = EmptyBuffer
    /\ midi = <<>>
    /\ audioBefore = EmptyBuffer
    /\ blocks = 0
    /\ scans = 0
    /\ order = <<>>
    /\ initialiseCalls = <<>>
    /\ prepareToPlayCalls = <<>>
    /\ jassertFailed = FALSE
    /\ sizeJassertFailed = FALSE
    /\ outcome = "none"

Next ==
    \/ \E f \in Frequencies : NewSinAudioNode(f)
    \/ \E k \in 0..Cardinality(Unowned) : NewSummingAudioNode(LastUnowned(k))
    \/ \E fn \in Functions :
           Unowned # {} /\ NewFunctionAudioNode(LastUnowned(1)[1], fn)
    \/ \E declared \in Declarable, ch \in ExtChannelCounts, rdy \in BOOLEAN :
           NewExtAudioNode(declared, ch, rdy)
    \/ \E nodeToProcess \in Unowned : NewAudioNodeProcessor(nodeToProcess)
    \/ \E fill \in UninitialisedFill : prepareToPlay(fill)
    \/ \E numChannels \in CallerChannelCounts :
           ProcessBegin(numChannels, CallerFill(numChannels))
    \/ ProcessNode
    \/ SkipNode
    \/ NextScan
    \/ FinishBlock

Spec == Init /\ [][Next]_vars

\* process is an ordinary call: once entered, its loops run on until it returns.
FairSpec ==
    Spec /\ WF_vars(ProcessNode) /\ WF_vars(SkipNode) /\ WF_vars(NextScan)
         /\ WF_vars(FinishBlock)

\* ------------------------------------------------------------- properties
RECURSIVE ReachableFrom(_)
\* The nodes reachable from n through inputs, n included.
ReachableFrom(n) ==
    {n} \cup UNION {ReachableFrom(m) : m \in Range(heap[n].nodes)}

RECURSIVE CanBeProcessed(_)
\* n is in the flat list and nothing below it keeps it from becoming ready.
CanBeProcessed(n) ==
    /\ n \in Range(allNodes)
    /\ IF heap[n].kind = "Ext"
       THEN heap[n].ready
       ELSE \A m \in Range(heap[n].nodes) : CanBeProcessed(m)

\* The graph of the processor is one every node of which can be processed: no
\* node that is never ready, no input missing from the flat list.
WellFormed == pc # "build" /\ \A n \in Range(allNodes) : CanBeProcessed(n)

\* process has been entered and has not returned.
InProcess == pc = "scan"

\* process has returned at least once and is not running.
AfterBlock == pc = "idle" /\ blocks >= 1

\* The scan loop is about to be left.
AtLoopExit == InProcess /\ i > Len(allNodes) /\ LoopExits

\* C1 (state part): when the scan loop of a well-formed graph exits, every
\* node reachable from the root has been processed.
C1_AllProcessedAtExit ==
    (AtLoopExit /\ WellFormed) =>
        \A n \in ReachableFrom(node) : hasProcessed(n)

\* C1: on a well-formed graph every call of process returns, and when the scan
\* loop exits every node reachable from the root, the root included, has
\* hasProcessed() true.
C1_TerminatesAllProcessed ==
    /\ [](C1_AllProcessedAtExit)
    /\ ((InProcess /\ WellFormed) ~> (pc = "idle"))

\* C1 witness: the loop of a three-level graph exits after more than one scan
\* with everything processed.
C1_Witness ==
    /\ WellFormed /\ AtLoopExit /\ scans >= 2
    /\ Cardinality(ReachableFrom(node)) >= 3
    /\ \A n \in ReachableFrom(node) : hasProcessed(n)

\* C2: in every block on a well-formed graph each node of the flat list is
\* processed exactly once, also one that occurs twice in the list: its flag is
\* true exactly when its one processing step of this block has run, and every
\* node has had its step when process returns.
C2_ExactlyOncePerBlock ==
    (blocks >= 1 /\ WellFormed) =>
        \A n \in Range(allNodes) :
            /\ Count(order, n) = (IF hasProcessed(n) THEN 1 ELSE 0)
            /\ (pc = "idle" => hasProcessed(n))

\* C2 witness: the second block of a graph whose flat list names a node twice
\* has ended.
C2_Witness ==
    /\ WellFormed /\ AfterBlock /\ blocks = 2
    /\ \E n \in Range(allNodes) : Count(allNodes, n) >= 2 /\ Count(order, n) = 1
    /\ Len(order) >= 3

\* C3: the order in which the nodes are processed in a block is a topological
\* order: every input of a combiner or a transform is processed before it.
C3_TopologicalOrder ==
    \A k \in 1..Len(order) :
        heap[order[k]].kind \in {"Summing", "Function"} =>
            \A m \in Range(heap[order[k]].nodes) :
                \E j \in 1..(k - 1) : order[j] = m

\* C3 witness: a combiner of two inputs, one of them a transform that comes
\* before its own input in the flat list, has been processed.
C3_Witness ==
    \E k \in 1..Len(order) :
        /\ heap[order[k]].kind = "Summing"
        /\ Len(heap[order[k]].nodes) >= 2
        /\ \E m \in Range(heap[order[k]].nodes) : heap[m].kind = "Function"

\* Some node of the flat list was left unprocessed by the last call.
Stalled == AfterBlock /\ \E n \in Range(allNodes) : ~hasProcessed(n)

\* C4: when the scan loop ends with a node still unprocessed, process reports
\* a structural error and leaves the caller's buffer as it was.
C4_StallReported ==
    Stalled => (outcome = "error" /\ audio = audioBefore)

\* C5: the flat list holds every node at most once.
C5_NoDuplicates ==
    pc # "build" => \A n \in Ids : Count(allNodes, n) <= 1

\* C6: on a well-formed graph no output accessor is ever called on a node whose
\* flag is false, neither by a downstream node nor by the final copy.
C6_ReadsOnlyProcessed == jassertFailed => ~WellFormed

\* C6 witness: a block has ended in which a combiner read a transform, the
\* transform read its input and the processor read the combiner.
C6_Witness ==
    /\ WellFormed /\ AfterBlock /\ ~jassertFailed
    /\ heap[node].kind = "Summing"
    /\ \E m \in Range(heap[node].nodes) : heap[m].kind = "Function"
    /\ \A n \in OutputsRead(node) : hasProcessed(n)

\* C7: prepareToPlay of the processor runs initialise once and prepareToPlay
\* once on every node of the flat list.
C7_PreparedOnce ==
    pc \in {"idle", "scan"} =>
        \A n \in Range(allNodes) :
            initialiseCalls[n] = 1 /\ prepareToPlayCalls[n] = 1

\* C8: after a block whose root was processed, the caller's channels that the
\* root has hold the root's samples, the others what they held before the call.
C8_CopyToCaller ==
    (AfterBlock /\ hasProcessed(node)) =>
        \A c \in 1..audio.numChannels :
            IF c <= audioBuffer[node].numChannels
            THEN audio.data[c] = audioBuffer[node].data[c]
            ELSE audio.data[c] = audioBefore.data[c]

\* C8 witness: a mono root with a signal was copied into a buffer of two
\* channels that the caller had not cleared.
C8_Witness ==
    /\ AfterBlock /\ hasProcessed(node)
    /\ audio.numChannels = 2 /\ audioBuffer[node].numChannels = 1
    /\ \E s \in 1..BlockSize : audioBuffer[node].data[1][s] # 0
    /\ \E s \in 1..BlockSize : audioBefore.data[2][s] # 0

RECURSIVE InputSum(_, _, _, _)
\* Sample s of channel c summed over those of the first k inputs that have a
\* channel c.
InputSum(inputs, k, c, s) ==
    IF k = 0
    THEN 0
    ELSE InputSum(inputs, k - 1, c, s)
         + (IF audioBuffer[inputs[k]].numChannels >= c
            THEN audioBuffer[inputs[k]].data[c][s]
            ELSE 0)

\* C9: in every block, a processed combiner holds in every channel the sum of
\* that channel over the inputs that have it, as produced in this block, and
\* nothing else.
C9_CombinerSums ==
    \A n \in Range(order) :
        heap[n].kind = "Summing" =>
            \A c \in 1..audioBuffer[n].numChannels, s \in 1..BlockSize :
                audioBuffer[n].data[c][s] =
                    InputSum(heap[n].nodes, Len(heap[n].nodes), c, s)

\* C9 witness: in the second block a combiner has summed two inputs of
\* different width into a signal.
C9_Witness ==
    /\ blocks = 2
    /\ \E n \in Range(order) :
          /\ heap[n].kind = "Summing"
          /\ Len(heap[n].nodes) >= 2
          /\ \E a, b \in Range(heap[n].nodes) :
                audioBuffer[a].numChannels < audioBuffer[b].numChannels
          /\ \E s \in 1..BlockSize : audioBuffer[n].data[1][s] # 0

\* C10 (state part): a processed transform has as many channels as its input
\* and holds function (input sample) at every sample of every common channel.
C10_Output ==
    \A n \in Range(order) :
        heap[n].kind = "Function" =>
            LET inputBuffer == audioBuffer[heap[n].nodes[1]]
            IN  /\ audioBuffer[n].numChannels = inputBuffer.numChannels
                /\ \A c \in 1..Min(inputBuffer.numChannels,
                                   audioBuffer[n].numChannels),
                      s \in 1..BlockSize :
                      audioBuffer[n].data[c][s] =
                          Apply(heap[n].function, inputBuffer.data[c][s])

\* C10 (step part): the step that processes a transform leaves the buffer of
\* its input as it was.
C10_InputKept ==
    \A n \in Ids :
        (heap[n].kind = "Function" /\ ~hasBeenProcessed[n]
            /\ hasBeenProcessed'[n]) =>
            audioBuffer'[heap[n].nodes[1]] = audioBuffer[heap[n].nodes[1]]

\* C10: after a transform is processed its output is function applied to the
\* input sample by sample, its channel count is its input's, and the input's
\* buffer is unchanged.
C10_TransformApplies == [](C10_Output) /\ [][C10_InputKept]_vars

\* C10 witness: a transform has turned a signal into a different one.
C10_Witness ==
    \E n \in Range(order) :
        /\ heap[n].kind = "Function"
        /\ audioBuffer[n].numChannels >= 1
        /\ \E s \in 1..BlockSize :
              /\ audioBuffer[heap[n].nodes[1]].data[1][s] # 0
              /\ audioBuffer[n].data[1][s] # audioBuffer[heap[n].nodes[1]].data[1][s]

\* The graph of runSinCancellingTest with root r: a combiner of a generator g1
\* and of a transform t that negates a second generator g2 of the same frequency.
Cancelling(r, g1, t, g2) ==
    /\ heap[r].kind = "Summing"
    /\ Range(heap[r].nodes) = {g1, t} /\ Len(heap[r].nodes) = 2
    /\ heap[g1].kind = "Sin"
    /\ heap[t].kind = "Function" /\ heap[t].function = "neg"
    /\ heap[t].nodes = <<g2>>
    /\ heap[g2].kind = "Sin" /\ heap[g2].frequency = heap[g1].frequency

\* C11: when the root is a combiner of a generator and of the negation of a
\* second generator of the same frequency, the two generators are in lock-step
\* after every block and every sample copied to the caller's buffer is zero.
C11_Cancels ==
    AfterBlock =>
        \A g1, t, g2 \in Ids :
            Cancelling(node, g1, t, g2) =>
                /\ phase[g1] = phase[g2]
                /\ audioBuffer[g1] = audioBuffer[g2]
                /\ \A c \in 1..Min(audio.numChannels,
                                   audioBuffer[node].numChannels) :
                       \A s \in 1..BlockSize : audio.data[c][s] = 0

\* C11 witness: the second block of such a graph has ended, the generators
\* delivered samples that are not zero and the caller received zeros.
C11_Witness ==
    /\ AfterBlock /\ blocks = 2
    /\ \E g1, t, g2 \in Ids :
           /\ Cancelling(node, g1, t, g2)
           /\ \E s \in 1..BlockSize : audioBuffer[g1].data[1][s] # 0
           /\ \A s \in 1..BlockSize : audio.data[1][s] = 0

\* prepareToPlay has run: every node of the flat list has been initialised.
Prepared == pc \in {"idle", "scan"}

\* C12 (state part): from prepareToPlay on, the buffer of every node of the
\* flat list has the channel count of the node's properties and the block size
\* as frame count, and neither jassert at the end of AudioNode::process() has
\* failed.
C12_SizeAsInitialised ==
    Prepared =>
        /\ ~sizeJassertFailed
        /\ \A n \in Range(allNodes) :
               /\ audioBuffer[n].numChannels =
                      getAudioNodeProperties(n).numberOfChannels
               /\ audioBuffer[n].numSamples = BlockSize
               /\ DOMAIN audioBuffer[n].data = 1..audioBuffer[n].numChannels

\* C12 (step part): no step of process changes the size of a node's buffer.
C12_SizeKept ==
    Prepared =>
        \A n \in Ids : SameSize(audioBuffer[n], audioBuffer'[n])

\* C12: the channel count and the frame count of every node's buffer are the
\* same before and after each processing step and stay the values initialise
\* set (channel count of the properties, block size) over any number of
\* blocks, so the two jasserts at the end of AudioNode::process() never fail.
C12_BufferSizeInvariant == [](C12_SizeAsInitialised) /\ [][C12_SizeKept]_vars

\* C12 witness: the second block of a graph has ended in which a combiner of
\* two channels has an input of one channel.
C12_Witness ==
    /\ AfterBlock /\ blocks = 2 /\ ~sizeJassertFailed
    /\ \E n \in Range(allNodes) :
           /\ heap[n].kind = "Summing" /\ hasProcessed(n)
           /\ audioBuffer[n].numChannels = 2
           /\ \E m \in Range(heap[n].nodes) : audioBuffer[m].numChannels = 1

\* C13 (state part): a call of process has made at most one scan more than the
\* flat list has entries, and every scan it completed before the current one
\* processed a node.
C13_ScansBounded ==
    blocks >= 1 =>
        /\ scans <= Len(allNodes) + 1
        /\ InProcess => scans <= Len(order)
        /\ InProcess => (processedAnyNodes => scans < Len(order))
        /\ AfterBlock => scans <= Len(order) + 1

\* C13 (step part): the flag of a scan is raised by processing a node that had
\* not been processed in this block, the loop goes on to another scan only
\* after a scan that processed a node, and it is left at the end of the first
\* scan that processed none.
C13_ScanStep ==
    InProcess =>
        /\ (~processedAnyNodes /\ processedAnyNodes') =>
               /\ order' = Append(order, allNodes[i])
               /\ ~hasBeenProcessed[allNodes[i]]
               /\ hasBeenProcessed'[allNodes[i]]
        /\ (scans' # scans /\ pc' = "scan") =>
               processedAnyNodes /\ ~processedAnyNodes' /\ scans' = scans + 1
        /\ pc' = "idle" => ~processedAnyNodes /\ scans' = scans + 1
        /\ (i > Len(allNodes) /\ ~processedAnyNodes) => pc' = "idle"

\* C13: for every graph, also one with a node that is never ready, one call of
\* process makes at most |allNodes| + 1 scans and then leaves the loop; every
\* scan but the last processes at least one node not yet processed in the
\* block, and the loop is left at the first scan that processes none.
C13_ScanLoopBounded ==
    /\ [](C13_ScansBounded)
    /\ [][C13_ScanStep]_vars
    /\ (InProcess ~> (pc = "idle"))

\* C13 witness: process has returned from a graph of four nodes after four
\* scans, three of which processed a node.
C13_Witness ==
    /\ AfterBlock /\ scans = 4 /\ Len(allNodes) = 4
    /\ Len(order) = 4 /\ ~processedAnyNodes

\* The graph under the root is built from the three node classes of the file:
\* generators, combiners and transforms.
SourceKindsOnly ==
    pc # "build" /\ \A n \in ReachableFrom(node) : heap[n].kind # "Ext"

\* C14: for any nesting of combiners and transforms over generators, the flat
\* list of the processor holds the root and every node that can be reached
\* from it through owned inputs, and nothing else.
C14_FlatListComplete ==
    SourceKindsOnly => Range(allNodes) = ReachableFrom(node)

\* C14 witness: a processor has been built on a root with three levels of
\* inputs beneath it.
C14_Witness ==
    /\ SourceKindsOnly
    /\ Cardinality(ReachableFrom(node)) = 4
    /\ \E a, b, c \in Ids :
           /\ a \in Range(heap[node].nodes)
           /\ b \in Range(heap[a].nodes)
           /\ c \in Range(heap[b].nodes)
    /\ Range(allNodes) = ReachableFrom(node)

\* The step runs AudioNode::process() on node n.
ProcessStepOf(n) ==
    /\ InProcess /\ i <= Len(allNodes) /\ allNodes[i] = n
    /\ ~hasBeenProcessed[n] /\ hasBeenProcessed'[n]
    /\ order' = Append(order, n)

\* C15 (step part): after prepareToPlay a step changes the audio or the MIDI
\* buffer of a node only if it is the node's own processing step, the step
\* that ends with the node's flag true; a step on another node, a skipped
\* node, a new scan, the copy to the caller and the reset of the next block
\* leave the buffers of the node as they are.
C15_WrittenInOwnStep ==
    Prepared =>
        \A n \in Ids :
            (audioBuffer'[n] # audioBuffer[n] \/ midiBuffer'[n] # midiBuffer[n])
                => ProcessStepOf(n)

\* C15 (step part): the flag of a node becomes true only in the node's own
\* processing step.
C15_FlagSetInOwnStep ==
    Prepared =>
        \A n \in Ids :
            (~hasBeenProcessed[n] /\ hasBeenProcessed'[n]) => ProcessStepOf(n)

\* C15: the buffers of a node are written only inside the node's own
\* AudioNode::process() step, the flag becomes true only in that step, and
\* from then until the node is processed in the next block nothing modifies
\* the buffers.
C15_BuffersOwned ==
    [][C15_WrittenInOwnStep /\ C15_FlagSetInOwnStep]_vars

\* C15 witness: in the second block a combiner has read the buffer of an input
\* that was processed earlier in the block and that holds samples.
C15_Witness ==
    /\ InProcess /\ blocks = 2 /\ Len(order) >= 2
    /\ heap[order[Len(order)]].kind = "Summing"
    /\ \E m \in Range(heap[order[Len(order)]].nodes) :
           /\ hasProcessed(m)
           /\ \E s \in 1..BlockSize : audioBuffer[m].data[1][s] # 0

RECURSIVE Eval(_, _, _), EvalSum(_, _, _, _)
\* Sample s of channel c of the tree under n, evaluated directly on the samples
\* the generators delivered for the block: a generator is its samples, a
\* combiner the sum of the inputs that have the channel, a transform its
\* function applied to its input.
Eval(n, c, s) ==
    CASE heap[n].kind = "Summing" ->
            EvalSum(heap[n].nodes, Len(heap[n].nodes), c, s)
      [] heap[n].kind = "Function" ->
            Apply(heap[n].function, Eval(heap[n].nodes[1], c, s))
      [] OTHER -> audioBuffer[n].data[c][s]

\* Eval summed over those of the first k inputs that have a channel c.
EvalSum(inputs, k, c, s) ==
    IF k = 0
    THEN 0
    ELSE EvalSum(inputs, k - 1, c, s)
         + (IF getAudioNodeProperties(inputs[k]).numberOfChannels >= c
            THEN Eval(inputs[k], c, s)
            ELSE 0)

\* C16: after every block on a well-formed graph, the audio copied to the
\* caller equals, sample by sample, the direct recursive evaluation of the
\* tree under the root on the generators' samples of that block.
C16_MatchesEvaluation ==
    (AfterBlock /\ WellFormed) =>
        \A c \in 1..Min(audio.numChannels,
                        getAudioNodeProperties(node).numberOfChannels) :
            \A s \in 1..BlockSize : audio.data[c][s] = Eval(node, c, s)

\* C16 witness: the second block of a transform over a combiner of two
\* generators of different frequencies has ended, and the caller holds the
\* function of the sum of the two generators, which is not zero.
C16_Witness ==
    /\ AfterBlock /\ blocks = 2
    /\ heap[node].kind = "Function"
    /\ \E r, a, b \in Ids :
           /\ heap[node].nodes = <<r>>
           /\ heap[r].kind = "Summing" /\ heap[r].nodes = <<a, b>>
           /\ heap[a].kind = "Sin" /\ heap[b].kind = "Sin"
           /\ heap[a].frequency # heap[b].frequency
           /\ \A s \in 1..BlockSize :
                  audio.data[1][s] =
                      Apply(heap[node].function,
                            audioBuffer[a].data[1][s] + audioBuffer[b].data[1][s])
           /\ \E s \in 1..BlockSize : audio.data[1][s] # 0

\* The largest number of the set S of naturals, 0 for the empty set.
Largest(S) == IF S = {} THEN 0 ELSE CHOOSE x \in S : \A y \in S : y <= x

\* C17: a combiner has audio iff some input has, has MIDI iff some input has,
\* and has the largest channel count of its inputs; without inputs that is
\* (false, false, 0) and the combiner is ready whenever it is asked. The
\* properties of a transform are those of its input.
C17_Properties ==
    \A n \in Ids :
        LET props == getAudioNodeProperties(n)
            inputs == Range(heap[n].nodes)
        IN  /\ heap[n].kind = "Summing" =>
                /\ props.hasAudio =
                       (\E m \in inputs : getAudioNodeProperties(m).hasAudio)
                /\ props.hasMidi =
                       (\E m \in inputs : getAudioNodeProperties(m).hasMidi)
                /\ props.numberOfChannels =
                       Largest({getAudioNodeProperties(m).numberOfChannels :
                                    m \in inputs})
                /\ inputs = {} =>
                       /\ props = [hasAudio |-> FALSE, hasMidi |-> FALSE,
                                   numberOfChannels |-> 0]
                       /\ isReadyToProcess(n)
            /\ heap[n].kind = "Function" =>
                props = getAudioNodeProperties(heap[n].nodes[1])

\* C17 witness: two scans into a block there are a combiner without inputs
\* and a combiner whose inputs differ in channel count and in having MIDI.
C17_Witness ==
    /\ InProcess /\ scans >= 1
    /\ \E n \in Ids : heap[n].kind = "Summing" /\ heap[n].nodes = <<>>
    /\ \E n \in Ids :
           /\ heap[n].kind = "Summing"
           /\ getAudioNodeProperties(n) =
                  [hasAudio |-> TRUE, hasMidi |-> TRUE, numberOfChannels |-> 2]
           /\ \E m \in Range(heap[n].nodes) :
                  getAudioNodeProperties(m) =
                      [hasAudio |-> TRUE, hasMidi |-> FALSE,
                       numberOfChannels |-> 1]

\* C18 (step part): while process runs, a step takes back neither the flag of
\* a node nor the readiness of a node.
C18_FlagsGrow ==
    InProcess =>
        \A n \in Ids :
            /\ hasProcessed(n) => hasProcessed(n)'
            /\ isReadyToProcess(n) => isReadyToProcess(n)'

\* C18: within one block the flags only grow: once hasProcessed() of a node is
\* true it stays true until the reset of the next block, and so a node whose
\* isReadyToProcess() is true stays ready for the rest of the block.
C18_Monotone == [][C18_FlagsGrow]_vars

\* C18 witness: in the second scan of a block a combiner is ready and not yet
\* processed while another node is still waiting for it.
C18_Witness ==
    /\ InProcess /\ scans >= 1
    /\ \E n, m \in Range(allNodes) :
           /\ heap[n].kind = "Summing" /\ heap[n].nodes # <<>>
           /\ isReadyToProcess(n) /\ ~hasProcessed(n)
           /\ n \in Range(heap[m].nodes) /\ ~isReadyToProcess(m)

\* C19: the core writes no MIDI: the event buffer of a generator, a combiner
\* or a transform is as process() handed it over, empty, also when an input
\* holds events, and a call of AudioNodeProcessor::process leaves the caller's
\* MidiBuffer as the caller passed it.
C19_MidiUntouched ==
    /\ \A n \in Ids : heap[n].kind # "Ext" => midiBuffer[n] = <<>>
    /\ blocks >= 1 => midi = CallerMidi(audio.numChannels)

\* C19 witness: the second block has ended for a caller that passed events and
\* a root that is a combiner or a transform with an input that holds events.
C19_Witness ==
    /\ AfterBlock /\ blocks = 2 /\ midi # <<>>
    /\ heap[node].kind \in {"Summing", "Function"} /\ hasProcessed(node)
    /\ \E m \in Range(heap[node].nodes) : midiBuffer[m] # <<>>
    /\ midiBuffer[node] = <<>>

\* The position of node n in the flat list.
Pos(n) == CHOOSE k \in 1..Len(allNodes) : allNodes[k] = n

\* C20 as stated: the root is the first element of the flat list.
C20_RootFirst == pc # "build" => allNodes[1] = node

\* C20, amended: the root is the last element of the flat list, and in a graph
\* of generators, combiners and transforms the other nodes stand before it in
\* the order in which a walk through the inputs from the root first meets
\* them: each node once, the first input of a node right after the node (at
\* the front of the list for the root), and each further input right after
\* the last node under the input before it.
C20_RootLast ==
    pc # "build" =>
        /\ allNodes[Len(allNodes)] = node
        /\ SourceKindsOnly =>
               /\ Len(allNodes) = Cardinality(ReachableFrom(node))
               /\ \A p \in ReachableFrom(node) :
                      \A k \in 1..Len(heap[p].nodes) :
                          Pos(heap[p].nodes[k]) =
                              IF k > 1
                              THEN Pos(heap[p].nodes[k - 1])
                                   + Cardinality(
                                         ReachableFrom(heap[p].nodes[k - 1]))
                              ELSE IF p = node THEN 1 ELSE Pos(p) + 1

\* C20 witness: a processor has been built on a combiner whose first input has
\* an input of its own and whose second input follows that one in the list.
C20_Witness ==
    /\ SourceKindsOnly /\ Len(allNodes) = 4
    /\ allNodes[4] = node /\ allNodes[1] # node
    /\ Len(heap[node].nodes) = 2
    /\ allNodes[1] = heap[node].nodes[1]
    /\ allNodes[2] \in Range(heap[allNodes[1]].nodes)
    /\ allNodes[3] = heap[node].nodes[2]

====
